---- MODULE Spec2Model ----
(***************************************************************************)
(* Model of scripts/export_proofs.py: the proof exporter that turns the    *)
(* binary artifacts target/proof and target/public_inputs of each circuit  *)
(* directory into target/proof.json and prints an aggregate JSON report.   *)
(*                                                                         *)
(* Bytes are integers 0..255, a byte string is a sequence of bytes, a text *)
(* string is a sequence of one-character strings.  A path of the file      *)
(* system is absent, a regular file with content, or a directory.          *)
(***************************************************************************)
EXTENDS Integers, Sequences, FiniteSets, TLC

VARIABLES
    fs,                 \* file system: circuit -> its three paths under target/
    fs0,                \* the file system when the run started (never changes)
    argv,               \* positional arguments given on the command line
    circuits,           \* args.circuits after parse_args
    pc,                 \* position of the run
    idx,                \* number of completed iterations of the for loop
    folder,             \* circuit whose directory export_directory is working on
    proof_hex,          \* local of export_directory
    public_inputs_hex,  \* local of export_directory
    payload,            \* local of export_directory
    ret,                \* value the last export_directory call returned (main's payload)
    results,            \* main's dict, as an insertion-ordered list of items
    stdout,             \* texts printed to standard output
    exit_status,        \* -1 while running, then the process exit status
    error,              \* the uncaught exception, NoError if none
    io                  \* history of calls and file-system operations

vars == <<fs, fs0, argv, circuits, pc, idx, folder, proof_hex, public_inputs_hex,
          payload, ret, results, stdout, exit_status, error, io>>

-----------------------------------------------------------------------------
(* Bounds of the model *)

MaxChunks == 2      \* public-inputs files hold up to this many field elements (+-1 byte)
MaxArgs == 2        \* up to this many circuit names on the command line
MaxProofLen == 3    \* generated proof blobs have up to this many bytes

(* Program constants *)

FIELD_ELEMENT_SIZE == 32

DefaultCircuits == <<"deposit", "transfer", "withdraw">>

-----------------------------------------------------------------------------
(* Text helpers *)

RECURSIVE Concat(_)
Concat(ss) == IF ss = <<>> THEN <<>> ELSE Head(ss) \o Concat(Tail(ss))

Spaces(n) == [k \in 1..n |-> " "]

\* The characters of the names the program uses as dict keys.
Chars(name) ==
    CASE name = "deposit"  -> <<"d","e","p","o","s","i","t">>
      [] name = "transfer" -> <<"t","r","a","n","s","f","e","r">>
      [] name = "withdraw" -> <<"w","i","t","h","d","r","a","w">>
      [] name = "proof"    -> <<"p","r","o","o","f">>
      [] name = "public_inputs" ->
            <<"p","u","b","l","i","c","_","i","n","p","u","t","s">>

HexDigits == <<"0","1","2","3","4","5","6","7","8","9","a","b","c","d","e","f">>

\* bytes.hex(): two lowercase digits per byte, high nibble first.
BytesHex(data) ==
    [j \in 1..(2 * Len(data)) |->
        LET b == data[(j + 1) \div 2]
        IN  HexDigits[(IF j % 2 = 1 THEN b \div 16 ELSE b % 16) + 1]]

\* Mutant: the prefix is forgotten.
to_hex_bare(data) == BytesHex(data)

to_hex(data) == <<"0", "x">> \o BytesHex(data)

-----------------------------------------------------------------------------
(* Exceptions and paths *)

NoError == [type |-> "none", path |-> <<>>, length |-> -1]

ProofPath(dir) == <<dir, "target", "proof">>
PublicInputsPath(dir) == <<dir, "target", "public_inputs">>
OutputPath(dir) == <<dir, "target", "proof.json">>

FileNotFoundError(dir) ==
    [type |-> "FileNotFoundError", path |-> <<dir, "target">>, length |-> -1]
ValueError(path, n) == [type |-> "ValueError", path |-> path, length |-> n]
IsADirectoryError(path) == [type |-> "IsADirectoryError", path |-> path, length |-> -1]

Absent == [kind |-> "absent", data |-> <<>>]
Directory == [kind |-> "dir", data |-> <<>>]
File(data) == [kind |-> "file", data |-> data]

\* Mutant: the existence test always passes.
Exists_always(node) == TRUE

\* Path.exists(): true for anything present at the path, a directory included.
Exists(node) == node.kind # "absent"

-----------------------------------------------------------------------------
(* read_public_inputs, on the content of the file *)

Slice(data, start, size) ==
    [k \in 1..(IF Len(data) - start < size THEN Len(data) - start ELSE size) |->
        data[start + k]]

\* Mutant: the windows are one byte short (data[i : i + 31]).
read_public_inputs_short(path, data) ==
    IF Len(data) % FIELD_ELEMENT_SIZE # 0
    THEN [ok |-> FALSE, value |-> <<>>, err |-> ValueError(path, Len(data))]
    ELSE [ok |-> TRUE,
          value |-> [n \in 1..(Len(data) \div FIELD_ELEMENT_SIZE) |->
                        to_hex(Slice(data, (n - 1) * FIELD_ELEMENT_SIZE,
                                     FIELD_ELEMENT_SIZE - 1))],
          err |-> NoError]

\* Mutant: no length check, the trailing partial element is encoded as it is.
read_public_inputs_unchecked(path, data) ==
    [ok |-> TRUE,
     value |-> [n \in 1..((Len(data) + FIELD_ELEMENT_SIZE - 1) \div FIELD_ELEMENT_SIZE) |->
                   to_hex(Slice(data, (n - 1) * FIELD_ELEMENT_SIZE,
                                FIELD_ELEMENT_SIZE))],
     err |-> NoError]

read_public_inputs(path, data) ==
    IF Len(data) % FIELD_ELEMENT_SIZE # 0
    THEN [ok |-> FALSE, value |-> <<>>, err |-> ValueError(path, Len(data))]
    ELSE [ok |-> TRUE,
          value |-> [n \in 1..(Len(data) \div FIELD_ELEMENT_SIZE) |->
                        to_hex(Slice(data, (n - 1) * FIELD_ELEMENT_SIZE,
                                     FIELD_ELEMENT_SIZE))],
          err |-> NoError]

-----------------------------------------------------------------------------
(* json.dumps(obj, indent=2) for the two shapes the program serializes *)

Quoted(chars) == <<"\"">> \o chars \o <<"\"">>

NewLine(level) == <<"\n">> \o Spaces(level)

DumpsList(items, level) ==
    IF items = <<>>
    THEN <<"[", "]">>
    ELSE <<"[">>
         \o Concat([n \in 1..Len(items) |->
                (IF n > 1 THEN <<",">> ELSE <<>>)
                \o NewLine(level + 2) \o Quoted(items[n])])
         \o NewLine(level) \o <<"]">>

\* Mutant: the keys are written in the other order.
DumpsPayload_swapped(p, level) ==
    <<"{">>
    \o NewLine(level + 2) \o Quoted(Chars("public_inputs")) \o <<":", " ">>
    \o DumpsList(p.public_inputs, level + 2)
    \o <<",">>
    \o NewLine(level + 2) \o Quoted(Chars("proof")) \o <<":", " ">> \o Quoted(p.proof)
    \o NewLine(level) \o <<"}">>

DumpsPayload(p, level) ==
    <<"{">>
    \o NewLine(level + 2) \o Quoted(Chars("proof")) \o <<":", " ">> \o Quoted(p.proof)
    \o <<",">>
    \o NewLine(level + 2) \o Quoted(Chars("public_inputs")) \o <<":", " ">>
    \o DumpsList(p.public_inputs, level + 2)
    \o NewLine(level) \o <<"}">>

DumpsResults(items) ==
    IF items = <<>>
    THEN <<"{", "}">>
    ELSE <<"{">>
         \o Concat([n \in 1..Len(items) |->
                (IF n > 1 THEN <<",">> ELSE <<>>)
                \o NewLine(2) \o Quoted(Chars(items[n].key)) \o <<":", " ">>
                \o DumpsPayload(items[n].value, 2)])
         \o NewLine(0) \o <<"}">>

\* Mutant: a new key is put first instead of last.
DictSet_front(items, key, value) ==
    IF \E n \in 1..Len(items) : items[n].key = key
    THEN [n \in 1..Len(items) |->
            IF items[n].key = key THEN [key |-> key, value |-> value] ELSE items[n]]
    ELSE <<[key |-> key, value |-> value]>> \o items

\* results[key] = value on an insertion-ordered dict: an existing key keeps
\* its position, a new key goes last.
DictSet(items, key, value) ==
    IF \E n \in 1..Len(items) : items[n].key = key
    THEN [n \in 1..Len(items) |->
            IF items[n].key = key THEN [key |-> key, value |-> value] ELSE items[n]]
    ELSE Append(items, [key |-> key, value |-> value])

NoPayload == [proof |-> <<>>, public_inputs |-> <<>>]

-----------------------------------------------------------------------------
(* The inputs of a run: command lines and file systems *)

Circuits == {DefaultCircuits[n] : n \in 1..Len(DefaultCircuits)}

Tag(c) == CHOOSE n \in 1..Len(DefaultCircuits) : DefaultCircuits[n] = c

\* A byte string of the given length: seed, seed + stride, ... (mod 256).
Gen(len, seed, stride) == [k \in 1..len |-> (seed + (k - 1) * stride) % 256]

OldJson == <<"o", "l", "d">>

ArgLists == UNION {[1..k -> Circuits] : k \in 0..MaxArgs}

\* The circuits a command line makes the run visit (argparse nargs="*" with a
\* default: an empty list of positionals is replaced by the default).
Requested(args) == IF args = <<>> THEN DefaultCircuits ELSE args

IsRequested(args, c) == \E n \in 1..Len(Requested(args)) : Requested(args)[n] = c

\* A directory no run of the model touches unless it is requested.
IdleDir(c) ==
    [proof |-> File(Gen(2, 171, Tag(c))),
     public_inputs |-> File(Gen(FIELD_ELEMENT_SIZE, Tag(c), 1)),
     proof_json |-> Absent]

\* Directory states of the multi-circuit runs.
ProofNodes(c) == {Absent, Directory, File(Gen(2, 171, Tag(c)))}
PublicInputsNodes(c) ==
    {Absent,
     File(Gen(FIELD_ELEMENT_SIZE, Tag(c), 1)),
     File(Gen(FIELD_ELEMENT_SIZE + 1, Tag(c), 1))}
OutputNodes == {Absent, File(OldJson)}

Dirs(c) ==
    {[proof |-> p, public_inputs |-> q, proof_json |-> o] :
        p \in ProofNodes(c), q \in PublicInputsNodes(c), o \in OutputNodes}

\* Directory states of the single-circuit runs: every kind of node, proof
\* blobs of every length up to MaxProofLen, public-inputs files of every
\* length within one byte of a multiple of 32 up to MaxChunks elements.
Patterns == {<<0, 0>>, <<250, 7>>}
ProofPatterns == {<<171, 34>>, <<255, 1>>}

PublicInputsLengths ==
    {n \in 0..(MaxChunks * FIELD_ELEMENT_SIZE + 1) :
        \E k \in 0..MaxChunks : n \in {k * FIELD_ELEMENT_SIZE - 1,
                                       k * FIELD_ELEMENT_SIZE,
                                       k * FIELD_ELEMENT_SIZE + 1}}

AnyProofNodes ==
    {Absent, Directory}
    \cup {File(Gen(n, pt[1], pt[2])) : n \in 0..MaxProofLen, pt \in ProofPatterns}
AnyPublicInputsNodes ==
    {Absent, Directory}
    \cup {File(Gen(n, pt[1], pt[2])) : n \in PublicInputsLengths, pt \in Patterns}
AnyOutputNodes == {Absent, File(OldJson)}

AnyDirs ==
    {[proof |-> p, public_inputs |-> q, proof_json |-> o] :
        p \in AnyProofNodes, q \in AnyPublicInputsNodes, o \in AnyOutputNodes}

\* The state of the process before main's first statement.
Start(args, files) ==
    /\ argv = args
    /\ fs = files
    /\ fs0 = files
    /\ circuits = <<>>
    /\ pc = "parse_args"
    /\ idx = 0
    /\ folder = ""
    /\ proof_hex = <<>>
    /\ public_inputs_hex = <<>>
    /\ payload = NoPayload
    /\ ret = NoPayload
    /\ results = <<>>
    /\ stdout = <<>>
    /\ exit_status = -1
    /\ error = NoError
    /\ io = <<>>

\* The directory states a command line lets a circuit start in.
DirChoices(args, c) == IF IsRequested(args, c) THEN Dirs(c) ELSE {IdleDir(c)}

Init ==
    \E args \in ArgLists :
        \E d1 \in DirChoices(args, DefaultCircuits[1]),
           d2 \in DirChoices(args, DefaultCircuits[2]),
           d3 \in DirChoices(args, DefaultCircuits[3]) :
            Start(args, [c \in Circuits |-> <<d1, d2, d3>>[Tag(c)]])

InitExport ==
    \E c \in Circuits : \E d \in AnyDirs :
        Start(<<c>>, [x \in Circuits |-> IF x = c THEN d ELSE IdleDir(x)])

-----------------------------------------------------------------------------
(* The run *)

Op(name, path) == [op |-> name, path |-> path]

\* Mutant: the exception is swallowed and the loop goes on.
Raise_swallowed(e) ==
    /\ error' = e
    /\ pc' = "return"
    /\ exit_status' = exit_status

\* Mutant: the failure is reported with exit status 0.
Raise_status0(e) ==
    /\ error' = e
    /\ pc' = "failed"
    /\ exit_status' = 0

\* An exception nothing catches: the interpreter prints the traceback to
\* standard error and the process exits with status 1.
Raise(e) ==
    /\ error' = e
    /\ pc' = "failed"
    /\ exit_status' = 1

\* main, lines 40-55: parse the command line, results = {}.
ParseArgs ==
    /\ pc = "parse_args"
    /\ circuits' = (IF argv = <<>> THEN DefaultCircuits ELSE argv)
    /\ results' = <<>>
    /\ pc' = "for"
    /\ UNCHANGED <<fs, fs0, argv, idx, folder, proof_hex, public_inputs_hex,
                   payload, ret, stdout, exit_status, error, io>>

\* main, lines 56-58: the next circuit; call export_directory(folder).
CallExport ==
    /\ pc = "for"
    /\ idx < Len(circuits)
    /\ folder' = circuits[idx + 1]
    /\ io' = Append(io, Op("call", <<circuits[idx + 1]>>))
    /\ proof_hex' = <<>>
    /\ public_inputs_hex' = <<>>
    /\ payload' = NoPayload
    /\ pc' = "exists"
    /\ UNCHANGED <<fs, fs0, argv, circuits, idx, ret, results, stdout,
                   exit_status, error>>

\* export_directory, lines 24-27: the short-circuit existence test.
CheckExists ==
    /\ pc = "exists"
    /\ io' = io \o (IF Exists(fs[folder].proof)
                    THEN <<Op("exists", ProofPath(folder)),
                           Op("exists", PublicInputsPath(folder))>>
                    ELSE <<Op("exists", ProofPath(folder))>>)
    /\ IF ~Exists(fs[folder].proof) \/ ~Exists(fs[folder].public_inputs)
       THEN Raise(FileNotFoundError(folder))
       ELSE pc' = "read_proof" /\ UNCHANGED <<error, exit_status>>
    /\ UNCHANGED <<fs, fs0, argv, circuits, idx, folder, proof_hex,
                   public_inputs_hex, payload, ret, results, stdout>>

\* export_directory, line 28: proof_hex = to_hex(proof_path.read_bytes()).
ReadProof ==
    /\ pc = "read_proof"
    /\ io' = Append(io, Op("read", ProofPath(folder)))
    /\ IF fs[folder].proof.kind = "file"
       THEN /\ proof_hex' = to_hex(fs[folder].proof.data)
            /\ pc' = "read_public_inputs"
            /\ UNCHANGED <<error, exit_status>>
       ELSE /\ Raise(IsADirectoryError(ProofPath(folder)))
            /\ UNCHANGED proof_hex
    /\ UNCHANGED <<fs, fs0, argv, circuits, idx, folder, public_inputs_hex,
                   payload, ret, results, stdout>>

\* export_directory, line 29, with read_public_inputs, lines 16-20.
ReadPublicInputs ==
    /\ pc = "read_public_inputs"
    /\ io' = Append(io, Op("read", PublicInputsPath(folder)))
    /\ IF fs[folder].public_inputs.kind = "file"
       THEN LET r == read_public_inputs(PublicInputsPath(folder),
                                        fs[folder].public_inputs.data)
            IN  IF r.ok
                THEN /\ public_inputs_hex' = r.value
                     /\ pc' = "write"
                     /\ UNCHANGED <<error, exit_status>>
                ELSE /\ Raise(r.err)
                     /\ UNCHANGED public_inputs_hex
       ELSE /\ Raise(IsADirectoryError(PublicInputsPath(folder)))
            /\ UNCHANGED public_inputs_hex
    /\ UNCHANGED <<fs, fs0, argv, circuits, idx, folder, proof_hex,
                   payload, ret, results, stdout>>

\* Mutant: the JSON is written over target/proof.
WriteOutput_clobber ==
    /\ pc = "write"
    /\ payload' = [proof |-> proof_hex, public_inputs |-> public_inputs_hex]
    /\ io' = Append(io, Op("write", OutputPath(folder)))
    /\ fs' = [fs EXCEPT ![folder].proof = File(DumpsPayload(payload', 0))]
    /\ pc' = "return"
    /\ UNCHANGED <<fs0, argv, circuits, idx, folder, proof_hex,
                   public_inputs_hex, ret, results, stdout, exit_status, error>>

\* export_directory, lines 30-35: build the payload and write proof.json.
WriteOutput ==
    /\ pc = "write"
    /\ payload' = [proof |-> proof_hex, public_inputs |-> public_inputs_hex]
    /\ io' = Append(io, Op("write", OutputPath(folder)))
    /\ fs' = [fs EXCEPT ![folder].proof_json = File(DumpsPayload(payload', 0))]
    /\ pc' = "return"
    /\ UNCHANGED <<fs0, argv, circuits, idx, folder, proof_hex,
                   public_inputs_hex, ret, results, stdout, exit_status, error>>

\* export_directory, line 36, and main, line 59: results[circuit] = payload.
ReturnPayload ==
    /\ pc = "return"
    /\ ret' = payload
    /\ results' = DictSet(results, folder, payload)
    /\ io' = Append(io, Op("return", <<folder>>))
    /\ idx' = idx + 1
    /\ pc' = "for"
    /\ UNCHANGED <<fs, fs0, argv, circuits, folder, proof_hex, public_inputs_hex,
                   payload, stdout, exit_status, error>>

\* main, line 61, after the loop: print the report and its newline; the
\* process exits with 0.
PrintReport ==
    /\ pc = "for"
    /\ idx >= Len(circuits)
    /\ stdout' = Append(stdout, DumpsResults(results) \o <<"\n">>)
    /\ io' = Append(io, Op("print", <<>>))
    /\ pc' = "done"
    /\ exit_status' = 0
    /\ UNCHANGED <<fs, fs0, argv, circuits, idx, folder, proof_hex,
                   public_inputs_hex, payload, ret, results, error>>

Next ==
    \/ ParseArgs
    \/ CallExport
    \/ CheckExists
    \/ ReadProof
    \/ ReadPublicInputs
    \/ WriteOutput
    \/ ReturnPayload
    \/ PrintReport

Spec == Init /\ [][Next]_vars

\* One circuit on the command line, its directory in any state.
SpecExport == InitExport /\ [][Next]_vars

\* The interpreter runs the single thread until the process exits.
FairSpec == Init /\ [][Next]_vars /\ WF_vars(Next)

-----------------------------------------------------------------------------
(* Vocabulary of the properties *)

LowerHexChars == {"0","1","2","3","4","5","6","7","8","9","a","b","c","d","e","f"}

HexValue(ch) ==
    CASE ch = "0" -> 0  [] ch = "1" -> 1  [] ch = "2" -> 2  [] ch = "3" -> 3
      [] ch = "4" -> 4  [] ch = "5" -> 5  [] ch = "6" -> 6  [] ch = "7" -> 7
      [] ch = "8" -> 8  [] ch = "9" -> 9  [] ch = "a" -> 10 [] ch = "b" -> 11
      [] ch = "c" -> 12 [] ch = "d" -> 13 [] ch = "e" -> 14 [] ch = "f" -> 15

\* The bytes a "0x..." string stands for.
HexDecode(s) ==
    [k \in 1..((Len(s) - 2) \div 2) |-> 16 * HexValue(s[2 * k + 1]) + HexValue(s[2 * k + 2])]

\* s is "0x" and two lowercase hex characters per byte of b, and decodes to b.
EncodesBytes(s, b) ==
    /\ Len(s) = 2 * Len(b) + 2
    /\ s[1] = "0"
    /\ s[2] = "x"
    /\ \A j \in 3..Len(s) : s[j] \in LowerHexChars
    /\ HexDecode(s) = b

LastOp == IF io = <<>> THEN Op("none", <<>>) ELSE io[Len(io)]

HasOp(name, path) == \E n \in 1..Len(io) : io[n] = Op(name, path)

IsFile(node) == node.kind = "file"

ProofData(c) == fs[c].proof.data
PublicInputsData(c) == fs[c].public_inputs.data

\* Both artifacts of c are regular files and the public inputs are whole
\* field elements.
WellFormedDir(c) ==
    /\ IsFile(fs[c].proof)
    /\ IsFile(fs[c].public_inputs)
    /\ Len(PublicInputsData(c)) % 32 = 0

\* Both artifacts of c are regular files and the public inputs are not whole
\* field elements.
MalformedDir(c) ==
    /\ IsFile(fs[c].proof)
    /\ IsFile(fs[c].public_inputs)
    /\ Len(PublicInputsData(c)) % 32 # 0

\* An artifact of c is absent.
MissingDir(c) == fs[c].proof.kind = "absent" \/ fs[c].public_inputs.kind = "absent"

\* The keys a pretty-printed JSON text has at an indentation: the quoted
\* strings that start a line after that many spaces and are followed by a colon.
KeyStarts(text, level) ==
    {p \in 1..Len(text) :
        /\ text[p] = "\n"
        /\ p + level + 2 <= Len(text)
        /\ \A k \in 1..level : text[p + k] = " "
        /\ text[p + level + 1] = "\""
        /\ \E q \in (p + level + 2)..(Len(text) - 1) :
              /\ text[q] = "\""
              /\ text[q + 1] = ":"
              /\ \A r \in (p + level + 2)..(q - 1) : text[r] # "\""}

KeyAt(text, level, p) ==
    LET q == CHOOSE q \in (p + level + 2)..Len(text) :
                /\ text[q] = "\""
                /\ \A r \in (p + level + 2)..(q - 1) : text[r] # "\""
    IN  SubSeq(text, p + level + 2, q - 1)

KeysAt(text, level) ==
    LET starts == KeyStarts(text, level)
    IN  [n \in 1..Cardinality(starts) |->
            KeyAt(text, level,
                  CHOOSE p \in starts : Cardinality({q \in starts : q < p}) = n - 1)]

-----------------------------------------------------------------------------
(* Properties of the single export (SpecExport) *)

\* C1: a public-inputs file of 32*k bytes (k >= 0) is read successfully into
\* exactly k hex strings; the i-th encodes bytes [32*i, 32*i+32) of the file,
\* and the decoded strings concatenated in order are the file's bytes.
C1_ReaderChunks ==
    (/\ LastOp = Op("read", PublicInputsPath(folder))
     /\ IsFile(fs[folder].public_inputs)
     /\ Len(PublicInputsData(folder)) % 32 = 0)
    => LET data == PublicInputsData(folder)
           out == public_inputs_hex
       IN  /\ pc = "write"
           /\ error = NoError
           /\ Len(out) * 32 = Len(data)
           /\ \A n \in 1..Len(out) :
                 /\ Len(out[n]) = 66
                 /\ HexDecode(out[n]) = SubSeq(data, 32 * (n - 1) + 1, 32 * n)
           /\ Concat([n \in 1..Len(out) |-> HexDecode(out[n])]) = data

\* Two field elements that differ have just been read.
C1_Witness ==
    /\ LastOp = Op("read", PublicInputsPath(folder))
    /\ pc = "write"
    /\ Len(PublicInputsData(folder)) = 64
    /\ Len(public_inputs_hex) = 2
    /\ public_inputs_hex[1] # public_inputs_hex[2]

\* C2: to_hex(b) is "0x" followed by two lowercase hex characters per byte,
\* of length 2*len(b)+2, and the characters after the prefix decode to b;
\* for the proof blob and for every 32-byte window of the public inputs.
C2_ToHexRoundTrip ==
    /\ pc \in {"read_public_inputs", "write", "return"}
          => EncodesBytes(proof_hex, ProofData(folder))
    /\ pc \in {"write", "return"}
          => \A n \in 1..Len(public_inputs_hex) :
                EncodesBytes(public_inputs_hex[n],
                             SubSeq(PublicInputsData(folder), 32 * (n - 1) + 1, 32 * n))

\* A proof with bytes below and above 16 has been encoded.
C2_Witness ==
    /\ pc = "read_public_inputs"
    /\ ProofData(folder) = <<255, 0, 1>>
    /\ Len(proof_hex) = 8

\* C3: with both artifacts present as files and a public-inputs length that is
\* not a multiple of 32, the export fails with the ValueError carrying the
\* path and the length, and nothing is written: proof.json stays absent or
\* keeps its previous content.
C3_MalformedNoWrite ==
    \A c \in Circuits :
        MalformedDir(c) =>
            /\ fs[c].proof_json = fs0[c].proof_json
            /\ ~HasOp("write", OutputPath(c))
            /\ folder = c => pc \notin {"write", "return", "done"}
            /\ (folder = c /\ LastOp = Op("read", PublicInputsPath(c))) =>
                  /\ pc = "failed"
                  /\ error = [type |-> "ValueError",
                              path |-> <<c, "target", "public_inputs">>,
                              length |-> Len(PublicInputsData(c))]

\* A malformed file made the export fail next to an older proof.json.
C3_Witness ==
    /\ pc = "failed"
    /\ error.type = "ValueError"
    /\ error.length = 33
    /\ fs[folder].proof_json = File(OldJson)

\* C4: with target/proof or target/public_inputs absent, the export fails with
\* the FileNotFoundError naming the directory, whatever the other path holds,
\* and writes no proof.json.
C4_MissingArtifact ==
    \A c \in Circuits :
        MissingDir(c) =>
            /\ fs[c].proof_json = fs0[c].proof_json
            /\ ~HasOp("write", OutputPath(c))
            /\ (folder = c /\ pc # "exists") =>
                  /\ pc = "failed"
                  /\ error = [type |-> "FileNotFoundError",
                              path |-> <<c, "target">>,
                              length |-> -1]

\* The proof is absent and the public inputs are malformed.
C4_Witness ==
    /\ pc = "failed"
    /\ fs[folder].proof.kind = "absent"
    /\ IsFile(fs[folder].public_inputs)
    /\ Len(PublicInputsData(folder)) % 32 = 1
    /\ error.type = "FileNotFoundError"

\* C10: whenever target/proof or target/public_inputs is not a regular file
\* (absent, or a directory), the export fails with the FileNotFoundError, and
\* no read of either artifact is attempted.
C10_NotAFileIsMissing ==
    \A c \in Circuits :
        (~IsFile(fs[c].proof) \/ ~IsFile(fs[c].public_inputs)) =>
            /\ ~HasOp("read", ProofPath(c))
            /\ ~HasOp("read", PublicInputsPath(c))
            /\ (folder = c /\ pc # "exists") =>
                  (pc = "failed" /\ error.type = "FileNotFoundError")

\* The record the artifacts of c call for.
ExpectedRecord(c) ==
    [proof |-> to_hex(ProofData(c)),
     public_inputs |-> read_public_inputs(PublicInputsPath(c), PublicInputsData(c)).value]

Zeros(n) == [k \in 1..n |-> "0"]

\* The proof.json of the two-byte proof ab cd and 64 zero bytes of public inputs.
ExampleJson ==
    <<"{", "\n", " ", " ", "\"", "p", "r", "o", "o", "f", "\"", ":", " ",
      "\"", "0", "x", "a", "b", "c", "d", "\"", ",", "\n", " ", " ", "\"",
      "p", "u", "b", "l", "i", "c", "_", "i", "n", "p", "u", "t", "s", "\"",
      ":", " ", "[", "\n", " ", " ", " ", " ", "\"", "0", "x">>
    \o Zeros(64)
    \o <<"\"", ",", "\n", " ", " ", " ", " ", "\"", "0", "x">>
    \o Zeros(64)
    \o <<"\"", "\n", " ", " ", "]", "\n", "}">>

\* C6: with both artifacts present as files and whole field elements, the
\* export does not fail; it returns {proof: to_hex(proof bytes), public_inputs:
\* read_public_inputs(...)} and proof.json then holds the serialization of
\* that record, keys proof then public_inputs, whatever it held before.
C6_ExportRecord ==
    \A c \in Circuits :
        (WellFormedDir(c) /\ folder = c) =>
            /\ pc # "failed"
            /\ error = NoError
            /\ HasOp("return", <<c>>) =>
                  /\ ret = ExpectedRecord(c)
                  /\ HexDecode(ret.proof) = ProofData(c)
                  /\ Len(ret.public_inputs) * 32 = Len(PublicInputsData(c))
                  /\ IsFile(fs[c].proof_json)
                  /\ fs[c].proof_json.data = DumpsPayload(ret, 0)
                  /\ KeysAt(fs[c].proof_json.data, 2)
                        = <<<<"p","r","o","o","f">>,
                            <<"p","u","b","l","i","c","_","i","n","p","u","t","s">>>>
                  /\ (ProofData(c) = <<171, 205>>
                      /\ PublicInputsData(c) = [k \in 1..64 |-> 0])
                        => fs[c].proof_json.data = ExampleJson

\* The example export has returned and replaced an older proof.json.
C6_Witness ==
    /\ HasOp("return", <<folder>>)
    /\ ProofData(folder) = <<171, 205>>
    /\ PublicInputsData(folder) = [k \in 1..64 |-> 0]
    /\ fs0[folder].proof_json = File(OldJson)
    /\ fs[folder].proof_json = File(ExampleJson)

-----------------------------------------------------------------------------
(* Properties of the whole run (Spec, FairSpec) *)

\* The circuits export_directory was called for, in the order of the calls.
Calls ==
    LET cs == SelectSeq(io, LAMBDA o : o.op = "call")
    IN  [n \in 1..Len(cs) |-> cs[n].path[1]]

Count(name) == Len(SelectSeq(io, LAMBDA o : o.op = name))

Failed == error # NoError

\* The names the run was asked for.
Supplied == IF argv = <<>> THEN <<"deposit", "transfer", "withdraw">> ELSE argv

\* A sequence without its repeated elements, first occurrences kept in order.
FirstOccurrences(names) ==
    LET keep == {n \in 1..Len(names) : \A m \in 1..(n - 1) : names[m] # names[n]}
    IN  [k \in 1..Cardinality(keep) |->
            names[CHOOSE n \in keep : Cardinality({m \in keep : m < n}) = k - 1]]

KeysOf(items) == [n \in 1..Len(items) |-> items[n].key]

\* C5 (state part): the calls are a prefix of the supplied names, in order;
\* a call begins only after the previous one returned; once an export has
\* failed, the failing circuit is the last one called and no later name has
\* been called or had its proof.json written.
C5_Ordered ==
    /\ Len(Calls) <= Len(circuits)
    /\ Calls = SubSeq(circuits, 1, Len(Calls))
    /\ \A m, n \in 1..Len(io) :
          (m < n /\ io[m].op = "call" /\ io[n].op = "call")
             => \E k \in (m + 1)..(n - 1) : io[k] = Op("return", io[m].path)
    /\ Failed =>
          /\ pc = "failed"
          /\ Len(Calls) = idx + 1
          /\ Count("write") = idx
          /\ Count("return") = idx
          /\ \A j \in (idx + 2)..Len(circuits) :
                (\A k \in 1..(idx + 1) : circuits[k] # circuits[j])
                   => /\ ~HasOp("call", <<circuits[j]>>)
                      /\ ~HasOp("write", OutputPath(circuits[j]))
                      /\ fs[circuits[j]].proof_json = fs0[circuits[j]].proof_json

\* C5: the orchestrator visits the circuits strictly in the supplied order,
\* each to completion before the next, and stops at the first failure: after
\* it no export is started and no proof.json is written, ever.
C5_FailFast ==
    /\ []C5_Ordered
    /\ [][Failed => (Failed' /\ io' = io /\ fs' = fs /\ pc' = pc)]_vars

\* The first of several circuits failed while a later one was exportable.
C5_Witness ==
    /\ Failed
    /\ idx = 0
    /\ Len(circuits) >= 2
    /\ circuits[2] # circuits[1]
    /\ WellFormedDir(circuits[2])
    /\ fs[circuits[2]].proof_json = Absent

\* What C7 says of the report, for a given sequence of expected keys.
ReportHasKeys(names) ==
    /\ Len(stdout) = 1
    /\ KeysAt(stdout[1], 2) = [n \in 1..Len(names) |-> Chars(names[n])]
    /\ KeysOf(results) = names
    /\ \A n \in 1..Len(results) : results[n].value = ExpectedRecord(results[n].key)
    /\ stdout[1] = DumpsResults(results) \o <<"\n">>
    /\ KeysAt(stdout[1], 4)
          = [n \in 1..(2 * Len(results)) |->
                IF n % 2 = 1 THEN <<"p","r","o","o","f">>
                ELSE <<"p","u","b","l","i","c","_","i","n","p","u","t","s">>]

C8_OneOfTwoEnds ==
    /\ pc \notin {"done", "failed"} =>
          /\ exit_status = -1
          /\ stdout = <<>>
          /\ error = NoError
          /\ Count("print") = 0
    /\ pc = "done" =>
          /\ exit_status = 0
          /\ error = NoError
          /\ Len(stdout) = 1
          /\ Count("print") = 1
          /\ LastOp.op = "print"
          /\ idx = Len(circuits)
          /\ Count("return") = Len(Supplied)
          /\ Count("write") = Len(Supplied)
          /\ \A n \in 1..Len(Supplied) :
                /\ HasOp("return", <<Supplied[n]>>)
                /\ IsFile(fs[Supplied[n]].proof_json)
    /\ pc = "failed" =>
          /\ exit_status # 0
          /\ exit_status # -1
          /\ error # NoError
          /\ stdout = <<>>
          /\ Count("print") = 0
          /\ Count("return") < Len(Supplied)

\* C8: every run terminates, and it ends either with all circuits exported,
\* the report printed exactly once after the last write and status zero, or
\* with a failed export, nothing printed, the error uncaught and a non-zero
\* status.
C8_Terminates ==
    /\ <>(pc \in {"done", "failed"})
    /\ []C8_OneOfTwoEnds
    /\ [][(pc \in {"done", "failed"}) => UNCHANGED <<pc, stdout, exit_status, error>>]_vars

\* A run that failed after it had written a proof.json.
C8_Witness ==
    /\ pc = "failed"
    /\ exit_status = 1
    /\ idx >= 1
    /\ Count("write") >= 1
    /\ stdout = <<>>

\* The export of c can no longer fail: it has returned or is about to.
Exported(c) == HasOp("return", <<c>>) \/ (folder = c /\ pc = "return")

\* C9: the proof and public_inputs files of every circuit always have their
\* initial content; a proof.json that differs from the start belongs to a
\* requested circuit whose export succeeded in this run, and it keeps the
\* exported record from then on, also when a later circuit fails.
C9_Frame ==
    \A c \in Circuits :
        /\ fs[c].proof = fs0[c].proof
        /\ fs[c].public_inputs = fs0[c].public_inputs
        /\ fs[c].proof_json # fs0[c].proof_json =>
              /\ \E n \in 1..Len(Supplied) : Supplied[n] = c
              /\ Exported(c)
        /\ Exported(c) => fs[c].proof_json = File(DumpsPayload(ExpectedRecord(c), 0))

\* A later circuit failed and the earlier proof.json is still there.
C9_Witness ==
    /\ pc = "failed"
    /\ idx >= 1
    /\ fs0[circuits[1]].proof_json = File(OldJson)
    /\ fs[circuits[1]].proof_json # fs0[circuits[1]].proof_json
    /\ fs[folder].proof_json = fs0[folder].proof_json

====
